---------------------------- MODULE Spec2Model ----------------------------
(***************************************************************************)
(* A model of pySWATPlus/TxtinoutReader.py: the print.prt editors, the     *)
(* template substitution, the workspace clone and the batch runner.        *)
(* Text is modelled as TLA+ strings (sequences of characters); a file is   *)
(* the string of its bytes, and Python's text-mode open() is modelled by   *)
(* ReadText / WriteText, which translate line terminators as Python does.  *)
(***************************************************************************)
EXTENDS Integers, Sequences, FiniteSets, TLC

VARIABLES
    platform,   \* "posix" or "nt": decides os.linesep in text-mode writes
    prt,        \* bytes of <root_folder>/print.prt
    hist,       \* the print.prt operations performed so far, each with its
                \* arguments and the bytes of print.prt before it
    ws,         \* the files of a workspace holding templates: file name -> bytes
    tplCall,    \* the last change_params call: its arguments and the files before it
    fs,         \* the file system: absolute path -> DIR or the bytes of a regular file
    cloneCall,  \* the last copy_swat call: arguments, outcome, the file system before it
    batch,      \* the run_parallel_swat call: its arguments and the file system before it
    main,       \* the calling process inside run_parallel_swat: running, returned, raised
    tasks,      \* the copy_and_run call of every parameter set: bound arguments, position
    cwds,       \* the working directory of every process (os.chdir changes it)
    printed,    \* what the batch has printed: <<run, line>> pairs
    touched,    \* <<run, path>>: the paths a run has created, changed or deleted
    run,        \* a single run_swat call: its arguments, its position, its outcome
    process     \* a single _run_swat call: the reader's position, the child and its pipes

prtVars == <<prt, hist>>
tplVars == <<ws, tplCall>>
cloneVars == <<fs, cloneCall>>
manyVars == <<batch, main, tasks, cwds, printed, touched>>
vars == <<platform, run, process, prtVars, tplVars, cloneVars, manyVars>>

\* no batch is in progress
NoBatch ==
    /\ batch = <<>> /\ main = <<>> /\ tasks = <<>>
    /\ cwds = <<>> /\ printed = <<>> /\ touched = {}
    /\ run = <<>> /\ process = <<>>

-----------------------------------------------------------------------------
(* Bounds of the model *)

MaxBody == 2     \* lines of print.prt after its six header lines, initially
MaxCalls == 2    \* operations performed on print.prt in one behaviour
MaxPieces == 2   \* pieces a template text is made of
MaxKeys == 2     \* entries of a token-to-value mapping
MaxExtra == 1    \* files of the source workspace besides the executable and print.prt
MaxRuns == 2     \* parameter sets given to run_parallel_swat
MaxEdits == 2    \* files named by the params, and by the tpl_params, of one run_swat
MaxWrites == 3   \* writes the executable makes to its standard output and error
PipeCapacity == 2  \* writes an operating-system pipe holds before a writer blocks

-----------------------------------------------------------------------------
(* Python string primitives *)

Ch(s, i) == SubSeq(s, i, i)

RECURSIVE Spaces(_)
Spaces(n) == IF n <= 0 THEN "" ELSE " " \o Spaces(n - 1)

\* str.ljust(width): pads on the right with spaces; a longer string is returned as is
ljust(s, width) == s \o Spaces(width - Len(s))

IsSpace(c) == c \in {" ", "\t", "\n", "\r"}

\* str.rstrip(): removes trailing whitespace
RECURSIVE rstrip(_)
rstrip(s) ==
    IF Len(s) > 0 /\ IsSpace(Ch(s, Len(s)))
    THEN rstrip(SubSeq(s, 1, Len(s) - 1))
    ELSE s

\* str.startswith(prefix)
startswith(s, p) == Len(s) >= Len(p) /\ SubSeq(s, 1, Len(p)) = p

\* str.endswith(suffix)
endswith(s, p) == Len(s) >= Len(p) /\ SubSeq(s, Len(s) - Len(p) + 1, Len(s)) = p

\* index of the last occurrence of character c in s, 0 if there is none (str.rfind + 1)
rfind(s, c) ==
    LET at == {i \in 1..Len(s) : Ch(s, i) = c}
    IN  IF at = {} THEN 0 ELSE CHOOSE i \in at : \A j \in at : j <= i

\* s.rsplit(c, maxsplit=1)[0]: the text before the last c, the whole of s if there is none
rsplit1_head(s, c) ==
    LET i == rfind(s, c) IN IF i = 0 THEN s ELSE SubSeq(s, 1, i - 1)

\* os.path.splitext(p)[1]: from the last dot of the last path component on, unless
\* only dots precede it in that component
RECURSIVE AllDots(_)
AllDots(s) == Len(s) = 0 \/ (Ch(s, 1) = "." /\ AllDots(Tail(s)))

splitext_ext(p) ==
    LET sep == rfind(p, "/")
        dot == rfind(p, ".")
    IN  IF dot > sep /\ ~AllDots(SubSeq(p, sep + 1, dot - 1))
        THEN SubSeq(p, dot, Len(p))
        ELSE ""

-----------------------------------------------------------------------------
(* Text-mode file I/O: open(path) and open(path, 'w') with newline=None *)

\* the positions of character c in s
Positions(s, c) == {i \in 1..Len(s) : Ch(s, i) = c}

\* the least member of P that is >= i, 0 if there is none
NextIn(P, i) ==
    LET at == {j \in P : j >= i}
    IN  IF at = {} THEN 0 ELSE CHOOSE j \in at : \A k \in at : j <= k

\* reading: "\r\n", "\r" and "\n" all arrive as "\n".
\* read_from(b, cr, i): bytes i.. of b as read, cr being the positions of "\r" in b
RECURSIVE read_from(_, _, _)
read_from(b, cr, i) ==
    LET j == NextIn(cr, i)
    IN  IF j = 0 THEN SubSeq(b, i, Len(b))
        ELSE SubSeq(b, i, j - 1) \o "\n"
             \o read_from(b, cr, IF j < Len(b) /\ Ch(b, j + 1) = "\n" THEN j + 2 ELSE j + 1)

ReadText(b) == read_from(b, Positions(b, "\r"), 1)

\* writing: "\n" leaves as os.linesep ("\r\n" on nt, "\n" on posix).
\* write_from(t, nl, i): characters i.. of t as written on nt
RECURSIVE write_from(_, _, _)
write_from(t, nl, i) ==
    LET j == NextIn(nl, i)
    IN  IF j = 0 THEN SubSeq(t, i, Len(t))
        ELSE SubSeq(t, i, j - 1) \o "\r\n" \o write_from(t, nl, j + 1)

WriteText(t, plat) ==
    IF plat = "nt" THEN write_from(t, Positions(t, "\n"), 1) ELSE t

\* the lines of a text, each with its terminator (iterating a file, file.readlines())
RECURSIVE lines_from(_, _, _)
lines_from(t, nl, i) ==
    IF i > Len(t) THEN <<>>
    ELSE LET j == NextIn(nl, i)
         IN  IF j = 0 THEN <<SubSeq(t, i, Len(t))>>
             ELSE <<SubSeq(t, i, j)>> \o lines_from(t, nl, j + 1)

readlines(t) == lines_from(t, Positions(t, "\n"), 1)

\* "".join(lines), file.writelines(lines)
RECURSIVE join(_)
join(ls) == IF Len(ls) = 0 THEN "" ELSE Head(ls) \o join(Tail(ls))

-----------------------------------------------------------------------------
(* print.prt: enable_object_in_print_prt and _enable_disable_csv_print *)

ObjWidth == 29       \* obj.ljust(29)
FlagWidth == 14      \* periodicity.ljust(14)
nth_line == 7        \* the line of print.prt that holds the csv switch

yn(b) == IF b THEN "y" ELSE "n"

\* flags = <<daily, monthly, yearly, avann>>
_build_line_to_add(obj, flags) ==
    rstrip(ljust(obj, ObjWidth)
           \o ljust(yn(flags[1]), FlagWidth) \o ljust(yn(flags[2]), FlagWidth)
           \o ljust(yn(flags[3]), FlagWidth) \o ljust(yn(flags[4]), FlagWidth))
    \o "\n"

\* "check if obj is object itself or file"
arg_to_add_of(obj) ==
    IF splitext_ext(obj) # "" THEN rsplit1_head(obj, "_") ELSE obj

\* the test of the scanning loop: the line is the object's
line_matches(line, arg) == startswith(line, arg \o " ")

RECURSIVE scan_lines(_, _, _)
scan_lines(lines, arg, flags) ==
    IF Len(lines) = 0 THEN [text |-> "", found |-> FALSE]
    ELSE LET rest == scan_lines(Tail(lines), arg, flags)
         IN  IF ~line_matches(Head(lines), arg)
             THEN [text |-> Head(lines) \o rest.text, found |-> rest.found]
             ELSE [text |-> _build_line_to_add(arg, flags) \o rest.text,
                   found |-> TRUE]

\* the text written back, from the text read
new_print_prt(text, obj, flags) ==
    LET arg == arg_to_add_of(obj)
        r == scan_lines(readlines(text), arg, flags)
    IN  IF r.found THEN r.text ELSE r.text \o _build_line_to_add(arg, flags)

\* the bytes of print.prt after enable_object_in_print_prt
enable_object_bytes(b, obj, flags, plat) ==
    WriteText(new_print_prt(ReadText(b), obj, flags), plat)

\* lines[nth_line - 1] raises IndexError on a shorter file, before anything is written
csv_print_raises(b) == Len(readlines(ReadText(b))) < nth_line

\* a faulty variant: the switch is put in front of the line instead of over its first character
csv_print_lines_keeps_first(lines, enable) ==
    [lines EXCEPT ![nth_line] = yn(enable) \o @]

csv_print_lines(lines, enable) ==
    [lines EXCEPT ![nth_line] = yn(enable) \o SubSeq(@, 2, Len(@))]

\* the bytes of print.prt after _enable_disable_csv_print
csv_print_bytes(b, enable, plat) ==
    IF csv_print_raises(b) THEN b
    ELSE WriteText(join(csv_print_lines(readlines(ReadText(b)), enable)), plat)

-----------------------------------------------------------------------------
(* The print.prt files and the arguments the operations are tried on *)

LongName == "lsunit_wb_channel_sd_aquifer0"

ObjArgs == {"basin", "basin_sub_day.txt", LongName}

FlagArgs == {<<TRUE, FALSE, FALSE, TRUE>>, <<FALSE, TRUE, TRUE, FALSE>>}

HeaderLines == <<"print.prt", "nyskip", "0", "aa_int_cnt", "1", "csvout">>

BodyLines == {"n  n", "", "basin  n", "basin_sub  y"}

RECURSIVE SeqsUpTo(_, _)
SeqsUpTo(S, n) ==
    IF n = 0 THEN {<<>>}
    ELSE LET shorter == SeqsUpTo(S, n - 1)
         IN  shorter \cup {Append(q, x) : q \in {r \in shorter : Len(r) = n - 1}, x \in S}

\* the bytes of a file of the given lines, each ended by eol, the last one only if lastEol
RECURSIVE file_bytes(_, _, _)
file_bytes(lines, eol, lastEol) ==
    IF Len(lines) = 0 THEN ""
    ELSE Head(lines)
         \o (IF Len(lines) > 1 \/ lastEol THEN eol ELSE "")
         \o file_bytes(Tail(lines), eol, lastEol)

PrtFiles ==
    {file_bytes(HeaderLines \o body, eol, lastEol) :
        body \in SeqsUpTo(BodyLines, MaxBody), eol \in {"\n", "\r\n"}, lastEol \in BOOLEAN}

InitPrt ==
    /\ NoBatch
    /\ platform \in {"posix", "nt"}
    /\ prt \in PrtFiles
    /\ hist = <<>>
    /\ ws = <<>>
    /\ tplCall = <<>>
    /\ fs = <<>>
    /\ cloneCall = <<>>

enable_object_in_print_prt(obj, flags) ==
    /\ Len(hist) < MaxCalls
    /\ prt' = enable_object_bytes(prt, obj, flags, platform)
    /\ hist' = Append(hist, [op |-> "enable_object", obj |-> obj, flags |-> flags,
                             enable |-> FALSE, pre |-> prt])
    /\ UNCHANGED <<platform, run, process, tplVars, cloneVars, manyVars>>

_enable_disable_csv_print(enable) ==
    /\ Len(hist) < MaxCalls
    /\ prt' = csv_print_bytes(prt, enable, platform)
    /\ hist' = Append(hist, [op |-> "csv_print", obj |-> "", flags |-> <<>>,
                             enable |-> enable, pre |-> prt])
    /\ UNCHANGED <<platform, run, process, tplVars, cloneVars, manyVars>>

NextPrt ==
    \/ \E obj \in ObjArgs, flags \in FlagArgs : enable_object_in_print_prt(obj, flags)
    \/ \E enable \in BOOLEAN : _enable_disable_csv_print(enable)

SpecPrt == InitPrt /\ [][NextPrt]_vars

-----------------------------------------------------------------------------
(* Templates: change_params *)

Digits == <<"0", "1", "2", "3", "4", "5", "6", "7", "8", "9">>

\* str(n) of a natural number
RECURSIVE nat_str(_)
nat_str(n) == IF n < 10 THEN Digits[n + 1] ELSE nat_str(n \div 10) \o Digits[(n % 10) + 1]

\* str(v): a value is an int or already a string
py_str(v) ==
    IF v.type = "int"
    THEN (IF v.val < 0 THEN "-" \o nat_str(-v.val) ELSE nat_str(v.val))
    ELSE v.val

\* the regular expression "#" + k + "#" matches the text at position i. The keys of
\* the model are made of letters, digits and ".", which matches any character but
\* a newline; every other pattern character matches itself.
re_match_at(text, i, pat) ==
    /\ i + Len(pat) - 1 <= Len(text)
    /\ \A j \in 1..Len(pat) :
          \/ Ch(pat, j) = "." /\ Ch(text, i + j - 1) # "\n"
          \/ Ch(pat, j) # "." /\ Ch(pat, j) = Ch(text, i + j - 1)

\* re.sub(pat, repl, text) from position i on: leftmost non-overlapping matches are
\* replaced. The replacement strings of the model hold no backslash, so the
\* replacement template stands for itself.
RECURSIVE re_sub_from(_, _, _, _)
re_sub_from(pat, repl, text, i) ==
    LET at == {j \in i..Len(text) : re_match_at(text, j, pat)}
        j == NextIn(at, i)
    IN  IF j = 0 THEN SubSeq(text, i, Len(text))
        ELSE SubSeq(text, i, j - 1) \o repl \o re_sub_from(pat, repl, text, j + Len(pat))

re_sub(pat, repl, text) == re_sub_from(pat, repl, text, 1)

\* for k, v in params.items(): new_lines = re.sub("#" + k + "#", str(v), new_lines)
\* (params is the sequence of the mapping's entries in insertion order)
RECURSIVE sub_params(_, _)
sub_params(text, params) ==
    IF Len(params) = 0 THEN text
    ELSE sub_params(re_sub("#" \o Head(params).key \o "#", py_str(Head(params).val), text),
                    Tail(params))

\* new_filename = tpl_filename.rsplit(".", 1)[0]
new_filename_of(tpl_filename) == rsplit1_head(tpl_filename, ".")

\* the files of the workspace after change_params (the template exists)
change_params_files(files, tpl_filename, params, plat) ==
    LET new_lines == sub_params(join(readlines(ReadText(files[tpl_filename]))), params)
    IN  (new_filename_of(tpl_filename) :> WriteText(new_lines, plat)) @@ files

TplNames == {"soils.sol.tpl", "lum.dtl.tpl"}

TplPieces == {"#a#", "#b#", "#abc#", "awc ", "\n"}

TplTexts == {join(q) : q \in SeqsUpTo(TplPieces, MaxPieces)}

TplKeys == {"a", "b", "a.c"}

TplValues == {[type |-> "int", val |-> 60], [type |-> "str", val |-> "0.555"],
              [type |-> "str", val |-> "#b#"]}

\* the mappings: their entries in insertion order, no key twice
TplParams ==
    {q \in SeqsUpTo([key : TplKeys, val : TplValues], MaxKeys) :
        \A i, j \in 1..Len(q) : i # j => q[i].key # q[j].key}

InitTpl ==
    /\ NoBatch
    /\ platform \in {"posix", "nt"}
    /\ \E name \in TplNames, text \in TplTexts : ws = (name :> text)
    /\ tplCall = <<>>
    /\ prt = ""
    /\ hist = <<>>
    /\ fs = <<>>
    /\ cloneCall = <<>>

change_params(tpl_filename, params) ==
    /\ tplCall = <<>>
    /\ tpl_filename \in DOMAIN ws
    /\ ws' = change_params_files(ws, tpl_filename, params, platform)
    /\ tplCall' = [tpl_filename |-> tpl_filename, params |-> params, pre |-> ws]
    /\ UNCHANGED <<platform, run, process, prtVars, cloneVars, manyVars>>

NextTpl == \E name \in TplNames, params \in TplParams : change_params(name, params)

SpecTpl == InitTpl /\ [][NextTpl]_vars

-----------------------------------------------------------------------------
(* The file system, as os, shutil and tempfile act on it *)

DIR == "<dir>"          \* the node of a directory
NoneDir == "<None>"     \* dir=None
TempRoot == "/tmp"      \* tempfile.gettempdir()

\* os.path.join(a, b)
path_join(a, b) == IF startswith(b, "/") THEN b ELSE a \o "/" \o b

\* the absolute path a path names in a process whose working directory is cwd
Resolve(cwd, p) == path_join(cwd, p)

ParentOf(p) == SubSeq(p, 1, rfind(p, "/") - 1)
Basename(p) == SubSeq(p, rfind(p, "/") + 1, Len(p))

\* the directories above p, the root "" included
Ancestors(p) == {SubSeq(p, 1, i - 1) : i \in Positions(p, "/")}

\* p is d or lies below d
Within(p, d) == p = d \/ startswith(p, d \o "/")

isdir(f, p) == p \in DOMAIN f /\ f[p] = DIR
isfile(f, p) == p \in DOMAIN f /\ f[p] # DIR

\* os.listdir(d)
listdir(f, d) == {Basename(p) : p \in {q \in DOMAIN f : q # "" /\ ParentOf(q) = d}}

Restrict(f, S) == [p \in S |-> f[p]]

\* os.makedirs(p, exist_ok=True): the error raised ("" if none) and the file system after
makedirs(f, p) ==
    IF p \in DOMAIN f
    THEN [exc |-> IF f[p] = DIR THEN "" ELSE "FileExistsError", fs |-> f]
    ELSE IF \E a \in Ancestors(p) : isfile(f, a)
    THEN [exc |-> "NotADirectoryError", fs |-> f]
    ELSE [exc |-> "",
          fs |-> [q \in (Ancestors(p) \cup {p}) \ DOMAIN f |-> DIR] @@ f]

\* tempfile.mkdtemp(dir=base) making the fresh name nm: os.mkdir(base/nm)
mkdtemp(f, base, nm) ==
    IF isdir(f, base)
    THEN [exc |-> "", fs |-> (path_join(base, nm) :> DIR) @@ f]
    ELSE IF base \in DOMAIN f \/ \E a \in Ancestors(base) : isfile(f, a)
    THEN [exc |-> "NotADirectoryError", fs |-> f]
    ELSE [exc |-> "FileNotFoundError", fs |-> f]

-----------------------------------------------------------------------------
(* copy_swat *)

\* a faulty variant: the monthly text output is forgotten
OutputSuffixesWithoutMonTxt ==
    {"_aa.txt", "_aa.csv", "_yr.txt", "_yr.csv", "_day.txt", "_day.csv", "_mon.csv"}

\* the suffixes of the simulation outputs that are not copied
OutputSuffixes ==
    {"_aa.txt", "_aa.csv", "_yr.txt", "_yr.csv", "_day.txt", "_day.csv", "_mon.csv", "_mon.txt"}

is_copied(file) == \A suf \in OutputSuffixes : ~endswith(file, suf)

\* "delete all files in dir": os.remove of every regular file directly inside d
delete_files(f, d) ==
    Restrict(f, {p \in DOMAIN f : ~(p # "" /\ ParentOf(p) = d /\ f[p] # DIR)})

\* where shutil.copy2(src, dst) writes: into dst when dst is a directory
copy2_target(f, name, dst) ==
    IF isdir(f, dst) THEN path_join(dst, name) ELSE dst

\* the copy loop. src and dst are absolute. When the listing of src holds a
\* directory that is to be copied, copy2 raises IsADirectoryError; os.listdir
\* gives no order, so the files in done were copied before it.
copy_files(f, src, dst, done) ==
    LET names == {n \in listdir(f, src) : is_copied(n)}
        dirs == {n \in names : isdir(f, path_join(src, n))}
        todo == IF dirs = {} THEN names ELSE done \cap (names \ dirs)
    IN  [exc |-> IF dirs = {} THEN "" ELSE "IsADirectoryError",
         fs |-> [q \in {copy2_target(f, n, path_join(dst, n)) : n \in todo} |->
                    f[path_join(src, Basename(q))]] @@ f]

\* the first branch: a new folder made by mkdtemp, dir made first if it is missing
new_folder(f, cwd, dir, nm, absTemp) ==
    LET base == IF dir = NoneDir THEN TempRoot ELSE dir
        at == Resolve(cwd, base)
        first == mkdtemp(f, at, nm)
        made == makedirs(f, at)
        second == mkdtemp(made.fs, at, nm)
        \* mkdtemp returns the path as given joined to the name, or its absolute path
        ret == IF absTemp THEN path_join(at, nm) ELSE path_join(base, nm)
    IN  IF first.exc = "" THEN [exc |-> "", fs |-> first.fs, ret |-> ret]
        ELSE IF first.exc # "FileNotFoundError" THEN [exc |-> first.exc, fs |-> f, ret |-> ""]
        ELSE IF made.exc # "" THEN [exc |-> made.exc, fs |-> f, ret |-> ""]
        ELSE [exc |-> second.exc, fs |-> second.fs, ret |-> ret]

\* the second branch: overwrite is true and dir is given
overwrite_folder(f, cwd, dir) ==
    LET at == Resolve(cwd, dir)
        made == makedirs(f, at)
    IN  IF isdir(f, at) THEN [exc |-> "", fs |-> delete_files(f, at), ret |-> dir]
        ELSE [exc |-> made.exc, fs |-> made.fs, ret |-> IF made.exc = "" THEN dir ELSE ""]

\* the folder copy_swat copies into. The tests run in the order of the source: the
\* branches "dir must be a folder" and "option not recognized" come after
\* "elif overwrite" and are reached only when overwrite is false and dir is given,
\* which the first test has already taken.
target_folder(f, cwd, dir, overwrite, nm, absTemp) ==
    IF dir = NoneDir \/ (~overwrite /\ dir # NoneDir)
    THEN new_folder(f, cwd, dir, nm, absTemp)
    ELSE IF overwrite
    THEN overwrite_folder(f, cwd, dir)
    ELSE IF ~isdir(f, Resolve(cwd, dir))
    THEN (IF isfile(f, Resolve(cwd, dir))
          THEN [exc |-> "TypeError: dir must be a folder", fs |-> f, ret |-> ""]
          ELSE [exc |-> makedirs(f, Resolve(cwd, dir)).exc,
                fs |-> makedirs(f, Resolve(cwd, dir)).fs, ret |-> dir])
    ELSE [exc |-> "TypeError: option not recognized", fs |-> f, ret |-> ""]

\* copy_swat of the reader of root_folder, in a process whose working directory is
\* cwd: the error raised ("" if none), the path returned and the file system after
copy_swat_outcome(f, cwd, root_folder, dir, overwrite, nm, absTemp, done) ==
    LET t == target_folder(f, cwd, dir, overwrite, nm, absTemp)
        c == copy_files(t.fs, Resolve(cwd, root_folder), Resolve(cwd, t.ret), done)
    IN  IF t.exc # "" THEN t
        ELSE [exc |-> c.exc, fs |-> c.fs, ret |-> IF c.exc = "" THEN t.ret ELSE ""]

-----------------------------------------------------------------------------
(* The workspaces and the targets copy_swat is tried on *)

SourceRoot == "/model"
HomeDir == "/home"

\* names a workspace may hold besides the executable and print.prt: one simulation
\* output per excluded suffix, and names that only resemble them
ExtraNames ==
    {"basin_wb_aa.txt", "basin_wb_aa.csv", "basin_wb_yr.txt", "basin_wb_yr.csv",
     "basin_wb_day.txt", "basin_wb_day.csv", "basin_wb_mon.txt", "basin_wb_mon.csv",
     "aa.txt", "hru_day.txt.bak"}

SourceNames == {{"swat.exe", "print.prt"} \cup X : X \in {Y \in SUBSET ExtraNames : Cardinality(Y) <= MaxExtra}}

content_of(name) == "data of " \o name

\* the file system around the workspace: a temp root, a working directory, a
\* target that holds stale regular files, a target that also holds a
\* subdirectory, and a regular file where a target directory could be asked for
Surroundings ==
    [p \in {"", TempRoot, HomeDir, "/old", "/old2", "/old2/sub"} |-> DIR]
    @@ ("/old/print.prt" :> "stale print.prt" @@ "/old/basin_wb_day.txt" :> "stale output"
        @@ "/old/notes" :> "stale notes" @@ "/old2/junk" :> "stale junk"
        @@ "/old2/sub/kept" :> "kept" @@ "/afile" :> "a regular file")

workspace_fs(names) ==
    (SourceRoot :> DIR) @@ [p \in {path_join(SourceRoot, n) : n \in names} |->
                              content_of(Basename(p))]

DirArgs == {NoneDir, "/runs", "runs", "/deep/runs", "/old", "/old2", "/afile", SourceRoot}

TmpNames == {"tmpa", "tmpb"}

InitClone ==
    /\ NoBatch
    /\ platform \in {"posix", "nt"}
    /\ \E names \in SourceNames : fs = workspace_fs(names) @@ Surroundings
    /\ cloneCall = <<>>
    /\ prt = ""
    /\ hist = <<>>
    /\ ws = <<>>
    /\ tplCall = <<>>

copy_swat(dir, overwrite) ==
    /\ cloneCall = <<>>
    /\ \E nm \in TmpNames, absTemp \in BOOLEAN, done \in SUBSET listdir(fs, SourceRoot) :
          LET r == copy_swat_outcome(fs, HomeDir, SourceRoot, dir, overwrite, nm, absTemp, done)
          IN  /\ fs' = r.fs
              /\ cloneCall' = [dir |-> dir, overwrite |-> overwrite, exc |-> r.exc,
                               ret |-> r.ret, pre |-> fs]
    /\ UNCHANGED <<platform, run, process, prtVars, tplVars, manyVars>>

NextClone == \E dir \in DirArgs, overwrite \in BOOLEAN : copy_swat(dir, overwrite)

SpecClone == InitClone /\ [][NextClone]_vars

-----------------------------------------------------------------------------
(* Python values handed to copy_and_run, and the binding of its arguments *)

PyNone == [t |-> "none", b |-> FALSE, s |-> "", n |-> 0]
PyBool(b) == [t |-> "bool", b |-> b, s |-> "", n |-> 0]
PyStr(s) == [t |-> "str", b |-> FALSE, s |-> s, n |-> 0]
\* a dict of parameter edits: {} when n = 0, else the edits that write the value n
PyDict(n) == [t |-> "dict", b |-> FALSE, s |-> "", n |-> n]

\* the truth value of x in "if x:"
truthy(x) ==
    CASE x.t = "bool" -> x.b
      [] x.t = "str" -> x.s # ""
      [] x.t = "dict" -> x.n # 0
      [] OTHER -> FALSE

dir_arg(x) == IF x.t = "none" THEN NoneDir ELSE x.s

\* def copy_and_run(self, dir, overwrite=False, params={}, tpl_params={}, show_output=True)
copy_and_run_signature == <<"dir", "overwrite", "params", "tpl_params", "show_output">>

copy_and_run_defaults ==
    [dir |-> PyNone, overwrite |-> PyBool(FALSE), params |-> PyDict(0),
     tpl_params |-> PyDict(0), show_output |-> PyBool(TRUE)]

\* Python's binding of a call: the k-th positional argument goes to the k-th
\* parameter, a keyword argument to the parameter of its name, and a parameter
\* that got neither takes its default
bind_arguments(positional, keywords) ==
    [name \in {copy_and_run_signature[k] : k \in 1..Len(copy_and_run_signature)} |->
        LET k == CHOOSE j \in 1..Len(copy_and_run_signature) :
                     copy_and_run_signature[j] = name
        IN  IF k <= Len(positional) THEN positional[k]
            ELSE IF name \in DOMAIN keywords THEN keywords[name]
            ELSE copy_and_run_defaults[name]]

\* copy_and_run_star(args): self.copy_and_run(*args)
copy_and_run_star(args) == bind_arguments(args, <<>>)

\* the call of the loop without a client
local_call(dir, edits) ==
    bind_arguments(<<>>, [dir |-> dir, overwrite |-> PyBool(FALSE),
                          params |-> PyDict(edits), show_output |-> PyBool(FALSE)])

\* items[i] of the client path
item(dir, edits) == <<dir, PyBool(FALSE), PyDict(edits), PyBool(FALSE)>>

-----------------------------------------------------------------------------
(* The steps of one copy_and_run *)

ParamFile == "hydrology.hyd"     \* the file the parameter edits of a batch name
OutputFile == "basin_wb_day.txt" \* the file the executable writes
ChildLine == "Execution successfully completed"

\* TxtinoutReader(path) in a process whose working directory is cwd
TxtinoutReader_init(f, cwd, path) ==
    LET at == Resolve(cwd, path)
        exes == {n \in listdir(f, at) : endswith(n, ".exe")}
    IN  IF ~isdir(f, at)
        THEN [exc |-> "FileNotFoundError: folder does not exist",
              root_folder |-> "", swat_exe_path |-> ""]
        ELSE IF Cardinality(exes) > 1
        THEN [exc |-> "TypeError: More than one .exe file found in the parent folder",
              root_folder |-> "", swat_exe_path |-> ""]
        ELSE IF exes = {}
        THEN [exc |-> "TypeError: .exe not found in parent folder",
              root_folder |-> "", swat_exe_path |-> ""]
        ELSE [exc |-> "", root_folder |-> path,
              swat_exe_path |-> path_join(path, CHOOSE n \in exes : TRUE)]

\* the table file after the value n has been assigned to its column
edited_table(n) == "esco " \o nat_str(n)

\* the loop over params.items() of run_swat: register_file, assign, overwrite_file
apply_params(f, cwd, root_folder, edits) ==
    LET file == Resolve(cwd, path_join(root_folder, ParamFile))
    IN  IF ~truthy(edits) THEN [exc |-> "", fs |-> f]
        ELSE IF ~isfile(f, file) THEN [exc |-> "FileNotFoundError", fs |-> f]
        ELSE [exc |-> "", fs |-> [f EXCEPT ![file] = edited_table(edits.n)]]

\* what the executable leaves in the directory it was started in: results
\* computed from the inputs it finds there
child_writes(f, child_cwd) ==
    LET input == path_join(child_cwd, ParamFile)
    IN  (path_join(child_cwd, OutputFile) :>
            ("flow of " \o (IF isfile(f, input) THEN f[input] ELSE "nothing"))) @@ f

\* the paths that differ between two file systems
Changed(f, g) ==
    {p \in DOMAIN f \cup DOMAIN g :
        p \notin DOMAIN f \/ p \notin DOMAIN g \/ f[p] # g[p]}

Touch(i, f, g) == touched \cup {<<i, p>> : p \in Changed(f, g)}

Workers == {"w1", "w2"}     \* the processes of the client's workers
MainProcess == "main"       \* the process that calls run_parallel_swat

NewTask(args) ==
    [pc |-> "pending", proc |-> "", args |-> args, tmp_path |-> "", clone |-> "",
     root_folder |-> "", swat_exe_path |-> "", child_cwd |-> "", exc |-> ""]

Raised(i, exc) == tasks' = [tasks EXCEPT ![i].pc = "raised", ![i].exc = exc]

ParamValues == {10, 20}

\* the lists of parameter-edit sets a batch is given: pairwise different sets
ParamLists ==
    {l \in SeqsUpTo(ParamValues, MaxRuns) :
        \A i, j \in 1..Len(l) : i # j => l[i] # l[j]}

BatchDirs == {PyNone, PyStr("/runs"), PyStr("runs")}

InitMany ==
    /\ platform = "posix"
    /\ prt = "" /\ hist = <<>> /\ ws = <<>> /\ tplCall = <<>> /\ cloneCall = <<>>
    /\ fs = workspace_fs({"swat.exe", "print.prt", ParamFile, OutputFile})
            @@ [p \in {"", TempRoot, HomeDir} |-> DIR]
    /\ batch = <<>>
    /\ main = [pc |-> "idle", results |-> <<>>, exc |-> ""]
    /\ tasks = <<>>
    /\ cwds = [p \in {MainProcess} \cup Workers |-> HomeDir]
    /\ printed = <<>>
    /\ touched = {}
    /\ run = <<>> /\ process = <<>>

\* run_parallel_swat up to the start of the runs: without a client the loop will
\* call copy_and_run with keywords, with a client the items are mapped through
\* copy_and_run_star. absTemp: tempfile.mkdtemp returns absolute paths.
run_parallel_swat(params, dir, client) ==
    /\ batch = <<>>
    /\ \E absTemp \in BOOLEAN :
          batch' = [params |-> params, dir |-> dir, client |-> client,
                    absTemp |-> absTemp, pre |-> fs]
    /\ main' = [main EXCEPT !.pc = "running"]
    /\ tasks' = [i \in 1..Len(params) |->
                    NewTask(IF client THEN copy_and_run_star(item(dir, params[i]))
                            ELSE local_call(dir, params[i]))]
    /\ UNCHANGED <<platform, run, process, prtVars, tplVars, cloneVars, cwds, printed, touched>>

\* copy_and_run, its first statement: tmp_path = self.copy_swat(dir, overwrite).
\* Without a client the runs follow each other in the calling process; with a
\* client a run is executed by a thread of any worker.
copy_and_run(i, w) ==
    /\ batch # <<>> /\ i \in DOMAIN tasks /\ tasks[i].pc = "pending"
    /\ IF batch.client THEN w \in Workers
       ELSE /\ w = MainProcess /\ main.pc = "running"
            /\ \A j \in 1..(i - 1) : tasks[j].pc = "done"
    /\ \E nm \in TmpNames :
          LET a == tasks[i].args
              r == copy_swat_outcome(fs, cwds[w], SourceRoot, dir_arg(a.dir),
                                     truthy(a.overwrite), nm, batch.absTemp, {})
              at == Resolve(cwds[w], r.ret)
          IN  /\ r.exc = "" => at \notin DOMAIN fs     \* mkdtemp makes a fresh name
              /\ fs' = r.fs
              /\ touched' = Touch(i, fs, r.fs)
              /\ tasks' = [tasks EXCEPT
                    ![i].proc = w,
                    ![i].pc = IF r.exc = "" THEN "copied" ELSE "raised",
                    ![i].exc = r.exc,
                    ![i].tmp_path = r.ret,
                    ![i].clone = IF r.exc = "" THEN at ELSE ""]
    /\ UNCHANGED <<platform, run, process, prtVars, tplVars, cloneCall, batch, main, cwds, printed>>

\* reader = TxtinoutReader(tmp_path), then run_swat up to the call of _run_swat:
\* aux_txtinout = TxtinoutReader(self.root_folder) and the parameter edits. The
\* tpl_params a batch binds are {} or False, so "if tpl_params:" is not taken.
run_swat(i) ==
    /\ i \in DOMAIN tasks /\ tasks[i].pc = "copied"
    /\ LET t == tasks[i]
           reader == TxtinoutReader_init(fs, cwds[t.proc], t.tmp_path)
           e == apply_params(fs, cwds[t.proc], reader.root_folder, t.args.params)
       IN  IF reader.exc # ""
           THEN Raised(i, reader.exc) /\ UNCHANGED <<fs, touched>>
           ELSE /\ fs' = e.fs
                /\ touched' = Touch(i, fs, e.fs)
                /\ tasks' = [tasks EXCEPT
                      ![i].pc = IF e.exc = "" /\ ~truthy(t.args.tpl_params)
                                THEN "edited" ELSE "raised",
                      ![i].exc = e.exc,
                      ![i].root_folder = reader.root_folder,
                      ![i].swat_exe_path = reader.swat_exe_path]
    /\ UNCHANGED <<platform, run, process, prtVars, tplVars, cloneCall, batch, main, cwds, printed>>

\* _run_swat: os.chdir(self.root_folder)
_run_swat_chdir(i) ==
    /\ i \in DOMAIN tasks /\ tasks[i].pc = "edited"
    /\ LET t == tasks[i]
           to == Resolve(cwds[t.proc], t.root_folder)
       IN  IF isdir(fs, to)
           THEN /\ cwds' = [cwds EXCEPT ![t.proc] = to]
                /\ tasks' = [tasks EXCEPT ![i].pc = "chdired"]
           ELSE Raised(i, "FileNotFoundError") /\ UNCHANGED cwds
    /\ UNCHANGED <<platform, run, process, prtVars, tplVars, cloneVars, batch, main, printed, touched>>

\* _run_swat: subprocess.Popen(swat_exe_path, ...): the child starts in the
\* working directory the process has at this moment
_run_swat_popen(i) ==
    /\ i \in DOMAIN tasks /\ tasks[i].pc = "chdired"
    /\ LET t == tasks[i]
       IN  IF isfile(fs, Resolve(cwds[t.proc], t.swat_exe_path))
           THEN tasks' = [tasks EXCEPT ![i].pc = "running",
                                       ![i].child_cwd = cwds[t.proc]]
           ELSE Raised(i, "FileNotFoundError")
    /\ UNCHANGED <<platform, run, process, prtVars, tplVars, cloneVars, batch, main, cwds,
                   printed, touched>>

\* _run_swat: the read loop up to the end of the child, which has written its
\* results by then; a line that is not empty is printed if show_output; run_swat
\* then returns self.root_folder
_run_swat_wait(i) ==
    /\ i \in DOMAIN tasks /\ tasks[i].pc = "running"
    /\ LET t == tasks[i]
           after == child_writes(fs, t.child_cwd)
       IN  /\ fs' = after
           /\ touched' = Touch(i, fs, after)
           /\ \E output \in {"", ChildLine} :
                 printed' = IF output # "" /\ truthy(t.args.show_output)
                            THEN Append(printed, <<i, output>>) ELSE printed
           /\ tasks' = [tasks EXCEPT ![i].pc = "done"]
    /\ UNCHANGED <<platform, run, process, prtVars, tplVars, cloneCall, batch, main, cwds>>

\* return results_ret / return client.gather(futures): the paths the runs
\* returned, in the order of params
run_parallel_swat_return ==
    /\ batch # <<>> /\ main.pc = "running"
    /\ \A i \in DOMAIN tasks : tasks[i].pc = "done"
    /\ main' = [main EXCEPT !.pc = "returned",
                            !.results = [i \in DOMAIN tasks |-> tasks[i].root_folder]]
    /\ UNCHANGED <<platform, run, process, prtVars, tplVars, cloneVars, batch, tasks, cwds,
                   printed, touched>>

\* the exception of a run leaves the loop, or is raised by client.gather
run_parallel_swat_raise ==
    /\ batch # <<>> /\ main.pc = "running"
    /\ \E i \in DOMAIN tasks :
          /\ tasks[i].pc = "raised"
          /\ main' = [main EXCEPT !.pc = "raised", !.exc = tasks[i].exc]
    /\ UNCHANGED <<platform, run, process, prtVars, tplVars, cloneVars, batch, tasks, cwds,
                   printed, touched>>

NextMany ==
    \/ \E params \in ParamLists, dir \in BatchDirs, client \in BOOLEAN :
          run_parallel_swat(params, dir, client)
    \/ \E i \in 1..MaxRuns, w \in {MainProcess} \cup Workers : copy_and_run(i, w)
    \/ \E i \in 1..MaxRuns : run_swat(i)
    \/ \E i \in 1..MaxRuns : _run_swat_chdir(i)
    \/ \E i \in 1..MaxRuns : _run_swat_popen(i)
    \/ \E i \in 1..MaxRuns : _run_swat_wait(i)
    \/ run_parallel_swat_return
    \/ run_parallel_swat_raise

SpecMany == InitMany /\ [][NextMany]_vars

-----------------------------------------------------------------------------
(* One run_swat: the edits, file by file, then the executable *)

ParamFiles == {ParamFile, "plants.plt"}     \* the table files params may name

\* the mapping given for every template of tpl_params
TplEdit == <<[key |-> "a", val |-> [type |-> "int", val |-> 60]]>>

TplText == "awc #a#\n"

\* params: the entries of the dict in insertion order, no file twice
RunParams ==
    {q \in SeqsUpTo([file : ParamFiles, n : ParamValues], MaxEdits) :
        \A i, j \in 1..Len(q) : i # j => q[i].file # q[j].file}

\* tpl_params: the entries of the dict in insertion order, no template twice
RunTplParams ==
    {q \in SeqsUpTo([tpl : TplNames, params : {TplEdit}], MaxEdits) :
        \A i, j \in 1..Len(q) : i # j => q[i].tpl # q[j].tpl}

\* the workspace of the run: the executable and those of the files in present
run_workspace(present) ==
    [p \in {"", TempRoot, HomeDir, SourceRoot} |-> DIR]
    @@ (path_join(SourceRoot, "swat.exe") :> content_of("swat.exe"))
    @@ [p \in {path_join(SourceRoot, n) : n \in present} |->
          IF Basename(p) \in TplNames THEN TplText ELSE content_of(Basename(p))]

\* register_file(filename), the assignments and overwrite_file() on one file
overwrite_file(f, file, n) ==
    IF ~isfile(f, file) THEN [exc |-> "FileNotFoundError", fs |-> f]
    ELSE [exc |-> "", fs |-> [f EXCEPT ![file] = edited_table(n)]]

\* self.change_params(tpl_file, tpl_par) on the files of the folder at root:
\* open(tpl_path) fails when the template is missing
change_params_at(f, root, tpl_filename, params, plat) ==
    LET tpl_path == path_join(root, tpl_filename)
        new_path == path_join(root, new_filename_of(tpl_filename))
        files == change_params_files((tpl_filename :> f[tpl_path]), tpl_filename,
                                     params, plat)
    IN  IF ~isfile(f, tpl_path) THEN [exc |-> "FileNotFoundError", fs |-> f]
        ELSE IF isdir(f, new_path) THEN [exc |-> "IsADirectoryError", fs |-> f]
        ELSE [exc |-> "", fs |-> (new_path :> files[new_filename_of(tpl_filename)]) @@ f]

\* where run_swat continues after the k-th entry of the loop named by stage
after_entry(stage, k, params, tpl_params) ==
    IF stage = "params" /\ k < Len(params) THEN [pc |-> "params", k |-> k + 1]
    ELSE IF stage = "params" /\ Len(tpl_params) > 0 THEN [pc |-> "tpl_params", k |-> 1]
    ELSE IF stage = "tpl_params" /\ k < Len(tpl_params) THEN [pc |-> "tpl_params", k |-> k + 1]
    ELSE [pc |-> "_run_swat", k |-> 0]

InitRun ==
    /\ NoBatch
    /\ platform = "posix"
    /\ prt = "" /\ hist = <<>> /\ ws = <<>> /\ tplCall = <<>> /\ cloneCall = <<>>
    /\ \E present \in SUBSET (ParamFiles \cup TplNames) : fs = run_workspace(present)

\* run_swat(params, tpl_params, show_output) up to the first edit:
\* aux_txtinout = TxtinoutReader(self.root_folder)
run_swat_call(params, tpl_params, show_output) ==
    /\ run = <<>>
    /\ LET reader == TxtinoutReader_init(fs, HomeDir, SourceRoot)
           next == after_entry("params", 0, params, tpl_params)
       IN  run' = [params |-> params, tpl_params |-> tpl_params,
                   show_output |-> show_output, pre |-> fs,
                   root_folder |-> reader.root_folder,
                   swat_exe_path |-> reader.swat_exe_path,
                   pc |-> IF reader.exc = "" THEN next.pc ELSE "raised",
                   k |-> next.k, exc |-> reader.exc,
                   invoked |-> FALSE, child_cwd |-> "", seen |-> fs]
    /\ cwds' = (MainProcess :> HomeDir)
    /\ UNCHANGED <<platform, process, prtVars, tplVars, cloneVars, batch, main, tasks,
                   printed, touched>>

\* one turn of "for filename, file_params in params.items()"
run_swat_param_edit ==
    /\ run # <<>> /\ run.pc = "params"
    /\ LET e == run.params[run.k]
           r == overwrite_file(fs, Resolve(cwds[MainProcess],
                                           path_join(run.root_folder, e.file)), e.n)
           next == after_entry("params", run.k, run.params, run.tpl_params)
       IN  /\ fs' = r.fs
           /\ run' = IF r.exc = "" THEN [run EXCEPT !.pc = next.pc, !.k = next.k]
                     ELSE [run EXCEPT !.pc = "raised", !.exc = r.exc]
    /\ UNCHANGED <<platform, process, prtVars, tplVars, cloneCall, manyVars>>

\* one turn of "for tpl_file, tpl_par in tpl_params.items()"
run_swat_tpl_edit ==
    /\ run # <<>> /\ run.pc = "tpl_params"
    /\ LET e == run.tpl_params[run.k]
           r == change_params_at(fs, Resolve(cwds[MainProcess], run.root_folder),
                                 e.tpl, e.params, platform)
           next == after_entry("tpl_params", run.k, run.params, run.tpl_params)
       IN  /\ fs' = r.fs
           /\ run' = IF r.exc = "" THEN [run EXCEPT !.pc = next.pc, !.k = next.k]
                     ELSE [run EXCEPT !.pc = "raised", !.exc = r.exc]
    /\ UNCHANGED <<platform, process, prtVars, tplVars, cloneCall, manyVars>>

\* aux_txtinout._run_swat(show_output) to its end, and return self.root_folder:
\* the executable is started in the folder and sees the files as they are then
run_swat_invoke ==
    /\ run # <<>> /\ run.pc = "_run_swat"
    /\ LET to == Resolve(cwds[MainProcess], run.root_folder)
       IN  /\ cwds' = [cwds EXCEPT ![MainProcess] = to]
           /\ fs' = child_writes(fs, to)
           /\ run' = [run EXCEPT !.pc = "returned", !.invoked = TRUE,
                                 !.child_cwd = to, !.seen = fs]
    /\ \E output \in {"", ChildLine} :
          printed' = IF output # "" /\ run.show_output
                     THEN Append(printed, <<0, output>>) ELSE printed
    /\ UNCHANGED <<platform, process, prtVars, tplVars, cloneCall, batch, main, tasks, touched>>

NextRun ==
    \/ \E params \in RunParams, tpl_params \in RunTplParams, show_output \in BOOLEAN :
          run_swat_call(params, tpl_params, show_output)
    \/ run_swat_param_edit
    \/ run_swat_tpl_edit
    \/ run_swat_invoke

SpecRun == InitRun /\ [][NextRun]_vars

-----------------------------------------------------------------------------
(* _run_swat and its child process: two pipes, of which only one is read *)

RECURSIVE lstrip(_)
lstrip(s) == IF Len(s) > 0 /\ IsSpace(Ch(s, 1)) THEN lstrip(Tail(s)) ELSE s

\* str.strip()
strip(s) == rstrip(lstrip(s))

\* what the executable does before it ends: a line on its standard output, an
\* empty line on its standard output, or as much on its standard error
ChildWrites == {"out", "blank", "err"}

ChildPrograms == SeqsUpTo(ChildWrites, MaxWrites)

ExitCodes == {0, 1}

line_of(w) == IF w = "out" THEN ChildLine \o "\n" ELSE "\n"

InitChild ==
    /\ NoBatch
    /\ platform = "posix"
    /\ prt = "" /\ hist = <<>> /\ ws = <<>> /\ tplCall = <<>> /\ cloneCall = <<>>
    /\ fs = <<>>

\* subprocess.Popen(swat_exe_path, stdout=subprocess.PIPE, stderr=subprocess.PIPE)
_run_swat_Popen(program, code, show_output) ==
    /\ process = <<>>
    /\ process' = [pc |-> "readline", show_output |-> show_output,
                   program |-> program, code |-> code, state |-> "running",
                   stdout |-> <<>>, stderr |-> 0, returncode |-> -1]
    /\ UNCHANGED <<platform, run, prtVars, tplVars, cloneVars, manyVars>>

\* raw_output = process.stdout.readline() and the rest of one turn of the loop.
\* readline returns when the pipe holds a line, or b'' when the child has closed
\* it; the loop is left when b'' was read and process.poll() is not None, and
\* _run_swat then returns. Nothing reads process.stderr.
_run_swat_readline ==
    /\ process # <<>> /\ process.pc = "readline"
    /\ process.stdout # <<>> \/ process.state # "running"
    /\ IF process.stdout # <<>>
       THEN LET output == strip(Head(process.stdout))
            IN  /\ process' = [process EXCEPT !.stdout = Tail(@)]
                /\ printed' = IF output # "" /\ process.show_output
                              THEN Append(printed, <<0, output>>) ELSE printed
       ELSE /\ process' = IF process.state = "exited"
                          THEN [process EXCEPT !.pc = "returned",
                                               !.returncode = process.code]
                          ELSE process
            /\ UNCHANGED printed
    /\ UNCHANGED <<platform, run, prtVars, tplVars, cloneVars, batch, main, tasks,
                   cwds, touched>>

\* the child writes: the write blocks while the pipe it writes to is full
child_write ==
    /\ process # <<>> /\ process.state = "running" /\ process.program # <<>>
    /\ LET w == Head(process.program)
       IN  IF w = "err"
           THEN /\ process.stderr < PipeCapacity
                /\ process' = [process EXCEPT !.program = Tail(@), !.stderr = @ + 1]
           ELSE /\ Len(process.stdout) < PipeCapacity
                /\ process' = [process EXCEPT !.program = Tail(@),
                                              !.stdout = Append(@, line_of(w))]
    /\ UNCHANGED <<platform, run, prtVars, tplVars, cloneVars, manyVars>>

\* the child has written everything and ends: its ends of the pipes are closed
child_close ==
    /\ process # <<>> /\ process.state = "running" /\ process.program = <<>>
    /\ process' = [process EXCEPT !.state = "closed"]
    /\ UNCHANGED <<platform, run, prtVars, tplVars, cloneVars, manyVars>>

\* the child has terminated: process.poll() gives its exit code from now on
child_exit ==
    /\ process # <<>> /\ process.state = "closed"
    /\ process' = [process EXCEPT !.state = "exited"]
    /\ UNCHANGED <<platform, run, prtVars, tplVars, cloneVars, manyVars>>

NextChild ==
    \/ \E program \in ChildPrograms, code \in ExitCodes, show_output \in BOOLEAN :
          _run_swat_Popen(program, code, show_output)
    \/ _run_swat_readline
    \/ child_write
    \/ child_close
    \/ child_exit

SpecChild == InitChild /\ [][NextChild]_vars

\* the reader and the child both take the steps they can take
SpecChildFair ==
    /\ SpecChild
    /\ WF_vars(_run_swat_readline)
    /\ WF_vars(child_write \/ child_close \/ child_exit)

-----------------------------------------------------------------------------
(* Vocabulary of the print.prt claims *)

LastCall == hist[Len(hist)]

\* the lines of a file as text: terminators as text mode reads them
TextLines(b) == readlines(ReadText(b))

\* a line without its terminator
Chomp(line) ==
    IF endswith(line, "\r\n") THEN SubSeq(line, 1, Len(line) - 2)
    ELSE IF endswith(line, "\n") THEN SubSeq(line, 1, Len(line) - 1)
    ELSE line

\* the object name of a line: its leading token
LeadToken(line) ==
    LET blanks == {i \in 1..Len(line) : IsSpace(Ch(line, i))}
    IN  IF blanks = {} THEN line ELSE SubSeq(line, 1, NextIn(blanks, 1) - 1)

\* at most one line per object name
OneLinePerObject(b) ==
    LET ls == TextLines(b)
    IN  \A i, j \in 1..Len(ls) :
            (i # j /\ LeadToken(ls[i]) # "") => LeadToken(ls[i]) # LeadToken(ls[j])

\* the fixed-field line of the specification, without terminator
FixedFieldLine(o, flags) ==
    rstrip(ljust(o, 29) \o ljust(yn(flags[1]), 14) \o ljust(yn(flags[2]), 14)
           \o ljust(yn(flags[3]), 14) \o ljust(yn(flags[4]), 14))

\* the object name a call is for: a filename-like token (one with an extension)
\* stands for the token without its trailing _<suffix> segment
ObjectNameOf(token) ==
    IF rfind(token, ".") > 1 /\ rfind(token, "_") > 0
    THEN SubSeq(token, 1, rfind(token, "_") - 1)
    ELSE token

IsProperPrefix(a, b) == Len(a) < Len(b) /\ startswith(b, a)

-----------------------------------------------------------------------------
\* C6: for an object name o for which no line starts with o followed by a space,
\* setPrintFrequency produces the original lines, each byte-identical, followed by
\* exactly one new line: the fixed-field line of o, terminated by a newline.
\* (Lines are compared as text mode reads them, so a line whose terminator alone
\* was rewritten to os.linesep still counts as identical.)
C6_AppendsOneLine ==
    (Len(hist) > 0 /\ LastCall.op = "enable_object") =>
        LET o == ObjectNameOf(LastCall.obj)
            before == TextLines(LastCall.pre)
            after == TextLines(prt)
        IN  (\A i \in 1..Len(before) : ~startswith(before[i], o \o " ")) =>
                /\ Len(after) = Len(before) + 1
                /\ SubSeq(after, 1, Len(before)) = before
                /\ Chomp(after[Len(after)]) = FixedFieldLine(o, LastCall.flags)
                /\ endswith(after[Len(after)], "\n")

\* C7: on a file with at most one line per object name, setPrintFrequency for an
\* object o that has a line replaces that line, at the same index, by the newly
\* built line, keeps the line count and leaves every other line unchanged; and
\* after any sequence of setPrintFrequency calls the file still holds at most one
\* line per object name.
C7_ReplacesInPlace ==
    /\ (Len(hist) > 0 /\ LastCall.op = "enable_object"
            /\ OneLinePerObject(LastCall.pre)) =>
          LET o == ObjectNameOf(LastCall.obj)
              before == TextLines(LastCall.pre)
              after == TextLines(prt)
          IN  \A i \in 1..Len(before) :
                  LeadToken(before[i]) = o =>
                      /\ Len(after) = Len(before)
                      /\ Chomp(after[i]) = FixedFieldLine(o, LastCall.flags)
                      /\ \A j \in 1..Len(before) : j # i => after[j] = before[j]
    /\ (Len(hist) > 0 /\ (\A k \in 1..Len(hist) : hist[k].op = "enable_object")
            /\ OneLinePerObject(hist[1].pre)) =>
          OneLinePerObject(prt)

\* C8: a call for object a never matches or changes the line of an object b of
\* which a is a proper prefix, nor the line of an object b that is a proper prefix
\* of a; a filename-like token stands for the token without its _<suffix>.
C8_PrefixBoundary ==
    (Len(hist) > 0 /\ LastCall.op = "enable_object") =>
        LET a == ObjectNameOf(LastCall.obj)
            before == TextLines(LastCall.pre)
            after == TextLines(prt)
        IN  \A i \in 1..Len(before) :
                LET b == LeadToken(before[i])
                IN  (IsProperPrefix(a, b) \/ (b # "" /\ IsProperPrefix(b, a))) =>
                        /\ ~line_matches(before[i], arg_to_add_of(LastCall.obj))
                        /\ i <= Len(after)
                        /\ after[i] = before[i]

\* the offset in the text of the first character of line n
LineStart(ls, n) == Len(join(SubSeq(ls, 1, n - 1))) + 1

\* the calls k and k+1 are toggleCsvOutput(true) then toggleCsvOutput(false) on a
\* file of at least 7 lines
IsRoundTrip(k) ==
    /\ k + 1 <= Len(hist)
    /\ hist[k].op = "csv_print" /\ hist[k].enable
    /\ hist[k + 1].op = "csv_print" /\ ~hist[k + 1].enable
    /\ ~csv_print_raises(hist[k].pre)

\* the bytes of print.prt after call k
After(k) == IF k < Len(hist) THEN hist[k + 1].pre ELSE prt

\* C9 (as stated): toggleCsvOutput(true) then toggleCsvOutput(false) restores the
\* original line 7 exactly, and each call changes only the first character of line
\* 7, leaving the rest of line 7, its terminator included, and every other line
\* untouched.
C9_RoundTripRestores ==
    /\ \A k \in 1..Len(hist) :
          IsRoundTrip(k) => TextLines(After(k + 1))[nth_line] = TextLines(hist[k].pre)[nth_line]
    /\ (Len(hist) > 0 /\ LastCall.op = "csv_print"
            /\ ~csv_print_raises(LastCall.pre)) =>
          LET before == TextLines(LastCall.pre)
              after == TextLines(prt)
          IN  /\ Len(after) = Len(before)
              /\ \A j \in 1..Len(before) : j # nth_line => after[j] = before[j]
              /\ Len(after[nth_line]) = Len(before[nth_line])
              /\ Ch(after[nth_line], 1) = yn(LastCall.enable)
              /\ Tail(after[nth_line]) = Tail(before[nth_line])

\* C9 (amended): on a file of at least 7 lines, read as text, each toggleCsvOutput
\* call overwrites exactly one character, the first character of line 7 (which is
\* the line's terminator when line 7 is empty), with 'y' or 'n' and leaves every
\* other character of the text as it was; toggleCsvOutput(true) followed by
\* toggleCsvOutput(false) restores the original line 7 exactly when that line
\* began with 'n', and not otherwise.
C9_ToggleFirstChar ==
    /\ (Len(hist) > 0 /\ LastCall.op = "csv_print"
            /\ ~csv_print_raises(LastCall.pre)) =>
          LET before == ReadText(LastCall.pre)
              after == ReadText(prt)
              at == LineStart(readlines(before), nth_line)
          IN  /\ Len(after) = Len(before)
              /\ Ch(after, at) = yn(LastCall.enable)
              /\ \A i \in 1..Len(before) : i # at => Ch(after, i) = Ch(before, i)
    /\ \A k \in 1..Len(hist) :
          IsRoundTrip(k) =>
              LET orig == TextLines(hist[k].pre)[nth_line]
                  back == TextLines(After(k + 1))
              IN  (Len(back) >= nth_line /\ back[nth_line] = orig) <=> Ch(orig, 1) = "n"

\* a round trip on a file whose line 7 began with 'n' has been performed
C9_Witness ==
    /\ IsRoundTrip(1)
    /\ Ch(TextLines(hist[1].pre)[nth_line], 1) = "n"
    /\ Len(TextLines(hist[1].pre)) > nth_line
    /\ TextLines(prt)[nth_line] = TextLines(hist[1].pre)[nth_line]

-----------------------------------------------------------------------------
(* Vocabulary of the template claim *)

\* text with every occurrence of the string tok replaced by repl, from position i on
RECURSIVE ReplaceAllFrom(_, _, _, _)
ReplaceAllFrom(text, tok, repl, i) ==
    LET at == {j \in i..Len(text) : j + Len(tok) - 1 <= Len(text)
                                       /\ SubSeq(text, j, j + Len(tok) - 1) = tok}
        j == NextIn(at, i)
    IN  IF j = 0 THEN SubSeq(text, i, Len(text))
        ELSE SubSeq(text, i, j - 1) \o repl \o ReplaceAllFrom(text, tok, repl, j + Len(tok))

\* the keys applied one after another, each #key# replaced by the string of its value
RECURSIVE ReplaceTokens(_, _)
ReplaceTokens(text, params) ==
    IF Len(params) = 0 THEN text
    ELSE ReplaceTokens(ReplaceAllFrom(text, "#" \o Head(params).key \o "#",
                                      py_str(Head(params).val), 1),
                       Tail(params))

\* a file name without its final suffix segment
WithoutFinalSuffix(name) ==
    LET dot == rfind(name, ".") IN IF dot = 0 THEN name ELSE SubSeq(name, 1, dot - 1)

\* C10: applyTemplate writes to the sibling file named by removing the template
\* file's final suffix segment the template text with every occurrence of #token#
\* replaced by the string of its value, keys applied in insertion order, and
\* nothing else changed; the template file itself is left unchanged.
\* (Texts are compared as text mode reads them.)
C10_TemplateSubstitution ==
    tplCall # <<>> =>
        LET tpl == tplCall.tpl_filename
            out == WithoutFinalSuffix(tpl)
        IN  /\ out \in DOMAIN ws
            /\ ReadText(ws[out]) = ReplaceTokens(ReadText(tplCall.pre[tpl]), tplCall.params)
            /\ ReadText(ws[tpl]) = ReadText(tplCall.pre[tpl])

-----------------------------------------------------------------------------
(* Vocabulary of the clone claims *)

\* the name ends in one of the eight output suffixes
HasOutputSuffix(name) ==
    \E kind \in {"_aa", "_yr", "_day", "_mon"}, ext \in {".txt", ".csv"} :
        endswith(name, kind \o ext)

\* a copy_swat call has returned
CloneReturned == cloneCall # <<>> /\ cloneCall.exc = ""

\* the absolute path of the directory the call was given
GivenTarget == Resolve(HomeDir, cloneCall.dir)

NewDirectoryMode == cloneCall.dir = NoneDir \/ ~cloneCall.overwrite

\* overwrite mode on a target that was a directory holding only regular files
OverwriteOfFlatDir ==
    /\ cloneCall.overwrite /\ cloneCall.dir # NoneDir
    /\ isdir(cloneCall.pre, GivenTarget)
    /\ \A n \in listdir(cloneCall.pre, GivenTarget) :
          isfile(cloneCall.pre, path_join(GivenTarget, n))

\* the directory d holds exactly the files of the source workspace that are not
\* simulation outputs, each with the content of the source file
IsCloneOfSource(f, d) ==
    /\ isdir(f, d)
    /\ listdir(f, d) = {n \in listdir(f, SourceRoot) : ~HasOutputSuffix(n)}
    /\ \A n \in listdir(f, d) :
          /\ isfile(f, path_join(d, n))
          /\ f[path_join(d, n)] = f[path_join(SourceRoot, n)]

C5_InvalidTargetRejected ==
    cloneCall # <<>> =>
        LET overwriting == cloneCall.overwrite /\ cloneCall.dir # NoneDir
        IN  /\ (overwriting /\ isfile(cloneCall.pre, GivenTarget)) =>
                  /\ cloneCall.exc = "TypeError: dir must be a folder"
                  /\ fs = cloneCall.pre
            /\ (overwriting /\ GivenTarget \notin DOMAIN cloneCall.pre) =>
                  /\ cloneCall.exc = ""
                  /\ Resolve(HomeDir, cloneCall.ret) = GivenTarget
                  /\ IsCloneOfSource(fs, GivenTarget)
            /\ ~(NewDirectoryMode \/ overwriting) =>
                  cloneCall.exc = "TypeError: option not recognized"

-----------------------------------------------------------------------------
(* Vocabulary of the batch claims *)

BatchReturned == batch # <<>> /\ main.pc = "returned"

\* the runs whose clone has been made
Cloned == {i \in DOMAIN tasks : tasks[i].clone # ""}

\* the runs that have been started
Started == {i \in DOMAIN tasks : tasks[i].pc # "pending"}

\* C1: on both backends, when run_parallel_swat returns, it returns a list of as
\* many paths as it was given parameter sets, and the i-th path is the clone in
\* which the i-th parameter set was applied and in which the executable of the
\* i-th run was run, whatever the order in which the runs completed.
C1_ResultsFollowInputs ==
    BatchReturned =>
        /\ Len(main.results) = Len(batch.params)
        /\ \A i \in 1..Len(batch.params) :
              /\ Resolve(HomeDir, main.results[i]) = tasks[i].clone
              /\ fs[path_join(tasks[i].clone, ParamFile)] = edited_table(batch.params[i])
              /\ tasks[i].child_cwd = tasks[i].clone

\* C2: in a batch every run has a clone of its own: the clones are pairwise
\* different, none is the source workspace, none existed before the call, and no
\* run creates, changes or deletes a path in the clone of another run or in the
\* source workspace.
C2_RunsAreIsolated ==
    batch # <<>> =>
        /\ \A i \in Cloned :
              /\ tasks[i].clone # SourceRoot
              /\ tasks[i].clone \notin DOMAIN batch.pre
              /\ \A j \in Cloned \ {i} : tasks[j].clone # tasks[i].clone
        /\ \A t \in touched :
              /\ ~Within(t[2], SourceRoot)
              /\ \A j \in Cloned \ {t[1]} : ~Within(t[2], tasks[j].clone)

\* C3: every run a batch starts is a copy_and_run with overwrite false, with
\* show_output false and with the i-th parameter set as its params, on both
\* backends, and nothing the executable writes is printed.
C3_RunsAreQuiet ==
    batch # <<>> =>
        /\ \A i \in Started :
              /\ tasks[i].args.overwrite = PyBool(FALSE)
              /\ tasks[i].args.show_output = PyBool(FALSE)
              /\ tasks[i].args.params = PyDict(batch.params[i])
        /\ printed = <<>>

-----------------------------------------------------------------------------
(* Vocabulary of the run_swat claim *)

\* the file system f holds every edit run_swat was asked for: every table file
\* with its value assigned, every generated file with its tokens replaced
HoldsEveryEdit(f) ==
    /\ \A k \in 1..Len(run.params) :
          LET file == path_join(SourceRoot, run.params[k].file)
          IN  isfile(f, file) /\ f[file] = edited_table(run.params[k].n)
    /\ \A k \in 1..Len(run.tpl_params) :
          LET tpl == path_join(SourceRoot, run.tpl_params[k].tpl)
              new == path_join(SourceRoot, WithoutFinalSuffix(run.tpl_params[k].tpl))
          IN  /\ isfile(f, tpl) /\ isfile(f, new)
              /\ ReadText(f[new]) = ReplaceTokens(ReadText(f[tpl]), run.tpl_params[k].params)

\* C11: run_swat invokes the executable only after every parameter edit and every
\* template edit has been applied and written; if applying the edits to a file
\* fails, the executable is not invoked for that run, and the workspace is not
\* left with only part of the requested edits on disk.
C11_EditsThenInvocation ==
    run # <<>> =>
        /\ run.invoked => HoldsEveryEdit(run.seen)
        /\ run.pc = "raised" => (~run.invoked /\ fs = run.pre)

-----------------------------------------------------------------------------
(* Vocabulary of the child-process claims *)

\* the runs whose executable has been launched
Launched == {i \in DOMAIN tasks : tasks[i].pc \in {"running", "done"}}

\* C12: whenever _run_swat launches the executable for a workspace, the child
\* process starts with that workspace as its working directory, also when
\* several runs are executed concurrently inside one worker process.
C12_ChildStartsInItsWorkspace ==
    \A i \in Launched : tasks[i].child_cwd = tasks[i].clone

\* C13: _run_swat blocks until the child has terminated and then returns: for
\* every executable that ends once its output is consumed, whatever it writes to
\* its standard output and its standard error and whatever its exit code,
\* _run_swat eventually returns; the reader and the child never wait on each
\* other forever.
C13_InvokeReturns ==
    (process # <<>>) ~> (process # <<>> /\ process.pc = "returned")

=============================================================================
